---- MODULE Spec2Model ----
(***************************************************************************)
(* Verification model of the document chunking / similarity search /       *)
(* reranking pipeline (document_processor.py, index_manager.py,            *)
(* reranking_service.py, mcp_server.py, embedding_service.py).              *)
(*                                                                         *)
(* Text is a sequence of one-character strings; Python offsets are         *)
(* 0-based and half-open, TLA+ sequences are 1-based, so the slice         *)
(* text[a:b] is Slice(text, a, b).  Similarity scores are fixed-point      *)
(* hundredths (a score of 60 is 0.60).                                     *)
(***************************************************************************)
EXTENDS Integers, Sequences, FiniteSets, TLC

VARIABLES
    \* ---- split_text_into_chunks_streaming, one call
    sp_buf, sp_size, sp_overlap, sp_cursor, sp_res, sp_pc, sp_st,
    \* ---- rerank_chunks, one call
    rr_chunks, rr_max, rr_judge, rr_out, rr_pc,
    \* ---- the index store, the threshold store and one search call
    index_file, threshold_file, s_call, s_ret, s_pc,
    \* ---- process_documents_from_folder, one run
    folder, d_size, d_overlap, d_pc, d_idx, pdf, documents, fate,
    \* ---- save_index and load_index on the index store
    store_before, save_pc, save_docs, loaded,
    \* ---- split_markdown_by_headers, one call
    md_call, md_chunks, md_pc,
    \* ---- generate_embeddings_for_documents, one run
    em_docs, em_calls, em_out, em_pc,
    \* ---- index_command: the progress dictionary and update_progress_task
    progress_state, task_pc

vars == <<sp_buf, sp_size, sp_overlap, sp_cursor, sp_res, sp_pc, sp_st,
          rr_chunks, rr_max, rr_judge, rr_out, rr_pc,
          index_file, threshold_file, s_call, s_ret, s_pc,
          folder, d_size, d_overlap, d_pc, d_idx, pdf, documents, fate,
          store_before, save_pc, save_docs, loaded,
          md_call, md_chunks, md_pc,
          em_docs, em_calls, em_out, em_pc,
          progress_state, task_pc>>

splitVars == <<sp_buf, sp_size, sp_overlap, sp_cursor, sp_res, sp_pc, sp_st>>
rerankVars == <<rr_chunks, rr_max, rr_judge, rr_out, rr_pc>>
searchVars == <<index_file, threshold_file, s_call, s_ret, s_pc>>
docVars == <<folder, d_size, d_overlap, d_pc, d_idx, pdf, documents, fate>>
storeVars == <<store_before, save_pc, save_docs, loaded>>
mdVars == <<md_call, md_chunks, md_pc>>
embedVars == <<em_docs, em_calls, em_out, em_pc>>
indexVars == <<progress_state, task_pc>>

\* an optional value: Python's None, or a given value
None == <<>>
Some(v) == <<v>>
Given(opt) == opt[1]

Min(a, b) == IF a <= b THEN a ELSE b
Max(a, b) == IF a >= b THEN a ELSE b

Range(s) == {s[i] : i \in 1..Len(s)}

\* all sequences over A of length lo..hi
SeqsOf(A, lo, hi) == UNION {[1..n -> A] : n \in lo..hi}

(***************************************************************************)
(* Text primitives                                                         *)
(***************************************************************************)

\* characters str.strip() removes
Whitespace == {" ", "\n", "\t", "\r"}

\* text[a:b] for 0 <= a, 0 <= b (Python clips both ends to the text)
Slice(text, a, b) ==
    LET lo == Min(a, Len(text))
        hi == Min(b, Len(text))
    IN  IF hi <= lo THEN <<>> ELSE SubSeq(text, lo + 1, hi)

\* text[a:]
SliceFrom(text, a) == Slice(text, a, Len(text))

RECURSIVE LStrip(_)
LStrip(text) ==
    IF text # <<>> /\ Head(text) \in Whitespace THEN LStrip(Tail(text)) ELSE text

RECURSIVE RStrip(_)
RStrip(text) ==
    IF text # <<>> /\ text[Len(text)] \in Whitespace
    THEN RStrip(SubSeq(text, 1, Len(text) - 1))
    ELSE text

\* str.strip()
Strip(text) == RStrip(LStrip(text))

\* text occurs in buf at 0-based offset i
OccursAt(buf, pat, i) ==
    /\ i >= 0
    /\ i + Len(pat) <= Len(buf)
    /\ \A k \in 1..Len(pat) : buf[i + k] = pat[k]

\* str.rfind(pat, a, b): the highest offset i with a <= i and i + len(pat) <= b
\* at which pat occurs, or -1
RFind(buf, pat, a, b) ==
    LET hi == Min(b, Len(buf))
        hits == {i \in a..(hi - Len(pat)) : OccursAt(buf, pat, i)}
    IN  IF hits = {} THEN -1 ELSE CHOOSE i \in hits : \A j \in hits : j <= i

(***************************************************************************)
(* split_text_into_chunks_streaming                                        *)
(***************************************************************************)

\* the sentence delimiters, in the order the loop tries them
Delimiters == << <<".", " ">>, <<"!", " ">>, <<"?", " ">>, <<"\n", "\n">> >>

\* the iteration ceiling of the splitting loop
MaxIterations == 1000

\* a boundary search that takes the latest delimiter of whatever kind
SeekLatestOfAnyKind(buf, start, end, k) ==
    LET found == {RFind(buf, Delimiters[j], start, end) + Len(Delimiters[j]) :
                     j \in {i \in k..Len(Delimiters) :
                               RFind(buf, Delimiters[i], start, end) # -1}}
    IN  IF found = {} THEN end ELSE CHOOSE e \in found : \A f \in found : f <= e

\* end of the chunk that starts at `start`: start + chunk_size, pulled back to
\* just after the last occurrence of the first delimiter kind found in
\* [start, start + chunk_size) when the tentative end lies inside the buffer
RECURSIVE SeekBoundary(_, _, _, _)
SeekBoundary(buf, start, end, k) ==
    IF k > Len(Delimiters) THEN end
    ELSE LET last_punct == RFind(buf, Delimiters[k], start, end)
         IN  IF last_punct # -1 THEN last_punct + Len(Delimiters[k])
             ELSE SeekBoundary(buf, start, end, k + 1)

ChunkEnd(buf, chunk_size, start) ==
    LET end == start + chunk_size
    IN  IF end < Len(buf) THEN SeekBoundary(buf, start, end, 1) ELSE end

\* a pass without the guard against a start that does not advance
PassResultNoGuard(st, chunk_size, overlap, end, chunk) ==
    LET accept == chunk # <<>> /\ chunk \notin Range(st.chunks)
    IN  [start     |-> end - overlap,
         iteration |-> st.iteration + 1,
         chunks    |-> IF accept THEN Append(st.chunks, chunk) ELSE st.chunks,
         passes    |-> Append(st.passes,
                         [start |-> st.start, end |-> end,
                          accepted |-> accept, forced |-> FALSE]),
         fuse      |-> FALSE]

\* a pass that always moves start by chunk_size
PassResultNoOverlap(st, chunk_size, overlap, end, chunk) ==
    LET accept == chunk # <<>> /\ chunk \notin Range(st.chunks)
    IN  [start     |-> st.start + chunk_size,
         iteration |-> st.iteration + 1,
         chunks    |-> IF accept THEN Append(st.chunks, chunk) ELSE st.chunks,
         passes    |-> Append(st.passes,
                         [start |-> st.start, end |-> end,
                          accepted |-> accept, forced |-> end - overlap <= st.start]),
         fuse      |-> FALSE]

\* the loop state after one pass over the window [st.start, end) whose
\* trimmed text is chunk: the chunk is appended unless empty or already
\* produced, and start moves to end - overlap, or by chunk_size when that
\* would not advance.  passes keeps one record per pass.
PassResult(st, chunk_size, overlap, end, chunk) ==
    LET accept    == chunk # <<>> /\ chunk \notin Range(st.chunks)
        forced    == end - overlap <= st.start
        new_start == IF forced THEN st.start + chunk_size ELSE end - overlap
    IN  [start     |-> new_start,
         iteration |-> st.iteration + 1,
         chunks    |-> IF accept THEN Append(st.chunks, chunk) ELSE st.chunks,
         passes    |-> Append(st.passes,
                         [start |-> st.start, end |-> end,
                          accepted |-> accept, forced |-> forced]),
         fuse      |-> FALSE]

\* one pass with the chunk end settled
PassOver(buf, chunk_size, overlap, st, end) ==
    PassResult(st, chunk_size, overlap, end, Strip(Slice(buf, st.start, end)))

RECURSIVE SplitLoop(_, _, _, _)

\* the bottom of the loop body: break when start reached the end of the buffer
LoopOn(buf, chunk_size, overlap, st) ==
    IF st.start >= Len(buf) THEN st ELSE SplitLoop(buf, chunk_size, overlap, st)

\* the while loop; st carries start, iteration, chunks and the passes made
SplitLoop(buf, chunk_size, overlap, st) ==
    IF ~(st.start < Len(buf)) THEN st
    ELSE IF st.iteration + 1 > MaxIterations
         THEN [st EXCEPT !.iteration = st.iteration + 1, !.fuse = TRUE]
    ELSE LoopOn(buf, chunk_size, overlap,
                PassOver(buf, chunk_size, overlap, st,
                         ChunkEnd(buf, chunk_size, st.start)))

\* split_text_into_chunks_streaming(text_buffer, chunk_size, overlap, last_chunk_end)
\* returns (chunks, last_end); passes and fuse expose what the loop did
SplitShort(buf, chunk_size, overlap, last_chunk_end) ==
    [chunks   |-> IF Strip(buf) # <<>> THEN <<buf>> ELSE <<>>,
     last_end |-> Len(buf),
     passes   |-> <<>>,
     fuse     |-> FALSE]

\* where the loop starts
SplitStart(overlap, last_chunk_end) ==
    [start     |-> IF last_chunk_end > 0 THEN Max(0, last_chunk_end - overlap) ELSE 0,
     iteration |-> 0, chunks |-> <<>>, passes |-> <<>>, fuse |-> FALSE]

\* what is returned once the loop has ended in st
SplitResult(buf, overlap, st) ==
    [chunks   |-> st.chunks,
     last_end |-> IF st.chunks # <<>> THEN st.start + overlap ELSE Len(buf),
     passes   |-> st.passes,
     fuse     |-> st.fuse]

SplitText(buf, chunk_size, overlap, last_chunk_end) ==
    IF Len(buf) <= chunk_size /\ last_chunk_end = 0
    THEN SplitShort(buf, chunk_size, overlap, last_chunk_end)
    ELSE SplitResult(buf, overlap,
                     SplitLoop(buf, chunk_size, overlap,
                               SplitStart(overlap, last_chunk_end)))

(***************************************************************************)
(* parse_markdown_headers, split_markdown_by_headers, process_markdown_file *)
(***************************************************************************)

\* content.split('\n')
RECURSIVE SplitLines(_, _)
SplitLines(content, line) ==
    IF content = <<>> THEN <<line>>
    ELSE IF Head(content) = "\n" THEN <<line>> \o SplitLines(Tail(content), <<>>)
    ELSE SplitLines(Tail(content), Append(line, Head(content)))

\* number of leading '#' of a line
RECURSIVE HashRun(_)
HashRun(line) ==
    IF line # <<>> /\ Head(line) = "#" THEN 1 + HashRun(Tail(line)) ELSE 0

\* re.match(r'^(#{1,6})\s+(.+)$', line): one to six '#', then whitespace, then
\* at least one more character; the header text is what follows the '#'s,
\* stripped.  None when the line is no header.
HeaderOf(line) ==
    LET n == HashRun(line)
    IN  IF n >= 1 /\ n <= 6 /\ Len(line) >= n + 2 /\ line[n + 1] \in Whitespace
        THEN Some([level |-> n, text |-> Strip(SliceFrom(line, n))])
        ELSE None

\* parse_markdown_headers: (level, start_pos, end_pos, header_text) per header
RECURSIVE HeadersFrom(_, _)
HeadersFrom(lines, current_pos) ==
    IF lines = <<>> THEN <<>>
    ELSE LET line == Head(lines)
             h    == HeaderOf(line)
             rest == HeadersFrom(Tail(lines), current_pos + Len(line) + 1)
         IN  IF h = None THEN rest
             ELSE <<[level |-> Given(h).level, start_pos |-> current_pos,
                     end_pos |-> current_pos + Len(line), text |-> Given(h).text]>>
                  \o rest

ParseMarkdownHeaders(content) == HeadersFrom(SplitLines(content, <<>>), 0)

\* a section that ends at the next header of whatever level
SectionEndAtNextHeader(content, headers, i) ==
    IF i = Len(headers) THEN Len(content) ELSE headers[i + 1].start_pos

\* where the section of header i ends: the start of the next header whose level
\* is <= its own, or the end of the content
SectionEnd(content, headers, i) ==
    LET closers == {j \in (i + 1)..Len(headers) : headers[j].level <= headers[i].level}
    IN  IF closers = {} THEN Len(content)
        ELSE headers[CHOOSE j \in closers : \A k \in closers : j <= k].start_pos

\* the sections of the headers, those with empty text left out
RECURSIVE HeaderSections(_, _, _)
HeaderSections(content, headers, i) ==
    IF i > Len(headers) THEN <<>>
    ELSE LET section_end  == SectionEnd(content, headers, i)
             section_text == Strip(Slice(content, headers[i].end_pos, section_end))
             rest         == HeaderSections(content, headers, i + 1)
         IN  IF section_text # <<>>
             THEN <<[level |-> headers[i].level, header |-> headers[i].text,
                     text |-> section_text,
                     start |-> headers[i].end_pos, end |-> section_end]>> \o rest
             ELSE rest

\* the header given to text before the first header (the source's word for
\* "introduction", transliterated)
IntroHeader == <<"V", "v", "e", "d", "e", "n", "i", "e">>

\* all sections: the text before the first header first, and the whole
\* content as one section when nothing else is left
Sections(content, headers) ==
    LET by_header == HeaderSections(content, headers, 1)
        pre_text  == Strip(Slice(content, 0, headers[1].start_pos))
        with_pre  == IF headers[1].start_pos > 0 /\ pre_text # <<>>
                     THEN <<[level |-> 0, header |-> IntroHeader, text |-> pre_text,
                             start |-> 0, end |-> headers[1].start_pos]>> \o by_header
                     ELSE by_header
    IN  IF with_pre = <<>>
        THEN <<[level |-> 0, header |-> <<>>, text |-> content,
                start |-> 0, end |-> Len(content)]>>
        ELSE with_pre

\* mutant: the breadcrumb is joined innermost first
RECURSIVE JoinPathInnermostFirst(_)
JoinPathInnermostFirst(texts) ==
    IF texts = <<>> THEN <<>>
    ELSE IF Len(texts) = 1 THEN texts[1]
    ELSE JoinPathInnermostFirst(Tail(texts)) \o <<" ", ">", " ">> \o texts[1]

\* ' > '.join(texts)
RECURSIVE JoinPath(_)
JoinPath(texts) ==
    IF texts = <<>> THEN <<>>
    ELSE IF Len(texts) = 1 THEN texts[1]
    ELSE texts[1] \o <<" ", ">", " ">> \o JoinPath(Tail(texts))

\* append the candidates not seen yet (by stripped text) and not empty, each
\* with the section's header context
RECURSIVE AddChunks(_, _, _)
AddChunks(acc, candidates, header_context) ==
    IF candidates = <<>> THEN acc
    ELSE LET text == Head(candidates)
             text_normalized == Strip(text)
         IN  IF text_normalized # <<>> /\ text_normalized \notin acc.seen_texts
             THEN AddChunks([chunks |-> Append(acc.chunks,
                                         [text |-> text, header_context |-> header_context]),
                             seen_texts |-> acc.seen_texts \cup {text_normalized}],
                            Tail(candidates), header_context)
             ELSE AddChunks(acc, Tail(candidates), header_context)

\* the loop over the sections: the header path, the document-wide seen set
RECURSIVE ChunkSections(_, _, _, _, _)
ChunkSections(sections, chunk_size, overlap, path, acc) ==
    IF sections = <<>> THEN acc.chunks
    ELSE LET section  == Head(sections)
             new_path == Append(SelectSeq(path, LAMBDA h : h.level < section.level),
                                [level |-> section.level, header |-> section.header])
             header_context == JoinPath([k \in 1..Len(new_path) |-> new_path[k].header])
             candidates ==
                 IF Len(section.text) <= chunk_size THEN <<section.text>>
                 ELSE SplitText(section.text, chunk_size, overlap, 0).chunks
         IN  ChunkSections(Tail(sections), chunk_size, overlap, new_path,
                           AddChunks(acc, candidates, header_context))

\* the default of the parameter min_chunk_size
DefaultMinChunkSize == 100

\* split_markdown_by_headers(content, chunk_size, overlap, min_chunk_size);
\* the body never reads min_chunk_size
SplitMarkdownByHeaders(content, chunk_size, overlap, min_chunk_size) ==
    LET headers == ParseMarkdownHeaders(content)
    IN  IF headers = <<>>
        THEN LET text_chunks == SplitText(content, chunk_size, overlap, 0).chunks
             IN  [k \in 1..Len(text_chunks) |->
                    [text |-> text_chunks[k], header_context |-> <<>>]]
        ELSE ChunkSections(Sections(content, headers), chunk_size, overlap, <<>>,
                           [chunks |-> <<>>, seen_texts |-> {}])

\* process_markdown_file: the records of one markdown file, none when reading
\* or splitting raised
ProcessMarkdownFile(filename, content, readable, chunk_size, overlap) ==
    IF ~readable THEN <<>>
    ELSE LET markdown_chunks == SplitMarkdownByHeaders(content, chunk_size, overlap,
                                                       DefaultMinChunkSize)
         IN  [k \in 1..Len(markdown_chunks) |->
                [document |-> filename,
                 chunk_id |-> k - 1,
                 text |-> markdown_chunks[k].text,
                 header_context |-> markdown_chunks[k].header_context,
                 total_chunks |-> Len(markdown_chunks)]]

(***************************************************************************)
(* process_documents_from_folder: the PDF streaming path                   *)
(***************************************************************************)

\* the per-PDF state set up before the batch loop; skipped counts the
\* "duplicate skipped" lines the two storing loops have logged for this PDF,
\* fed keeps the batch texts the generator has yielded for it
FreshPdf ==
    [text_buffer |-> <<>>, last_chunk_end |-> 0, chunk_counter |-> 0,
     batch_number |-> 0, seen_chunks_pdf |-> {}, skipped |-> 0, fed |-> <<>>]

\* mutant: no duplicate check
EmitOneNoDedup(st, chunk, filename) ==
    IF Strip(chunk) # <<>>
    THEN [documents |-> Append(st.documents,
                          [document |-> filename, chunk_id |-> st.chunk_counter,
                           text |-> chunk, total_chunks |-> 0]),
          chunk_counter |-> st.chunk_counter + 1,
          seen_chunks_pdf |-> st.seen_chunks_pdf \cup {Strip(chunk)},
          skipped |-> st.skipped]
    ELSE [st EXCEPT !.skipped = st.skipped + 1]

\* mutant: the counter also advances for a discarded chunk
EmitOneCountsDiscarded(st, chunk, filename) ==
    IF Strip(chunk) # <<>> /\ Strip(chunk) \notin st.seen_chunks_pdf
    THEN [documents |-> Append(st.documents,
                          [document |-> filename, chunk_id |-> st.chunk_counter,
                           text |-> chunk, total_chunks |-> 0]),
          chunk_counter |-> st.chunk_counter + 1,
          seen_chunks_pdf |-> st.seen_chunks_pdf \cup {Strip(chunk)},
          skipped |-> st.skipped]
    ELSE [st EXCEPT !.chunk_counter = st.chunk_counter + 1,
                    !.skipped = st.skipped + 1]

\* one pass of the loop that stores chunks: a chunk that is not empty and not
\* seen in this PDF becomes a record with the next chunk_id and the
\* placeholder total_chunks = 0; any other chunk is logged as skipped
EmitOne(st, chunk, filename) ==
    LET chunk_normalized == Strip(chunk)
    IN  IF chunk_normalized # <<>> /\ chunk_normalized \notin st.seen_chunks_pdf
        THEN [documents |-> Append(st.documents,
                              [document |-> filename, chunk_id |-> st.chunk_counter,
                               text |-> chunk, total_chunks |-> 0]),
              chunk_counter |-> st.chunk_counter + 1,
              seen_chunks_pdf |-> st.seen_chunks_pdf \cup {chunk_normalized},
              skipped |-> st.skipped]
        ELSE [st EXCEPT !.skipped = st.skipped + 1]

RECURSIVE EmitChunks(_, _, _)
EmitChunks(st, chunks, filename) ==
    IF chunks = <<>> THEN st
    ELSE EmitChunks(EmitOne(st, Head(chunks), filename), Tail(chunks), filename)

\* keep only the overlap for the next batch
Shrink(text_buffer, last_chunk_end, overlap) ==
    IF last_chunk_end > overlap
    THEN [text_buffer |-> SliceFrom(text_buffer, last_chunk_end - overlap),
          last_chunk_end |-> overlap]
    ELSE LET kept == SliceFrom(text_buffer, Max(0, Len(text_buffer) - overlap))
         IN  [text_buffer |-> kept, last_chunk_end |-> Min(overlap, Len(kept))]

\* the body of the batch loop for one yielded batch
BatchStep(p, docs, batch_text, filename, chunk_size, overlap) ==
    LET text_buffer == p.text_buffer \o batch_text
        split   == SplitText(text_buffer, chunk_size, overlap, p.last_chunk_end)
        emitted == EmitChunks([documents |-> docs, chunk_counter |-> p.chunk_counter,
                               seen_chunks_pdf |-> p.seen_chunks_pdf,
                               skipped |-> p.skipped],
                              split.chunks, filename)
        shrunk  == Shrink(text_buffer, split.last_end, overlap)
    IN  [pdf |-> [text_buffer |-> shrunk.text_buffer,
                  last_chunk_end |-> shrunk.last_chunk_end,
                  chunk_counter |-> emitted.chunk_counter,
                  batch_number |-> p.batch_number + 1,
                  seen_chunks_pdf |-> emitted.seen_chunks_pdf,
                  skipped |-> emitted.skipped,
                  fed |-> Append(p.fed, batch_text)],
         documents |-> emitted.documents]

\* mutant: the backfill writes every record
BackfillAll(docs, filename, total_chunks) ==
    [k \in 1..Len(docs) |-> [docs[k] EXCEPT !.total_chunks = total_chunks]]

\* total_chunks written to every record of this document
Backfill(docs, filename, total_chunks) ==
    [k \in 1..Len(docs) |->
        IF docs[k].document = filename
        THEN [docs[k] EXCEPT !.total_chunks = total_chunks]
        ELSE docs[k]]

\* after the batch loop: the rest of the buffer is split once more, then the
\* backfill
DrainStep(p, docs, filename, chunk_size, overlap) ==
    LET emitted ==
            IF Strip(p.text_buffer) # <<>>
            THEN EmitChunks([documents |-> docs, chunk_counter |-> p.chunk_counter,
                             seen_chunks_pdf |-> p.seen_chunks_pdf,
                             skipped |-> p.skipped],
                            SplitText(p.text_buffer, chunk_size, overlap,
                                      p.last_chunk_end).chunks,
                            filename)
            ELSE [documents |-> docs, chunk_counter |-> p.chunk_counter,
                  seen_chunks_pdf |-> p.seen_chunks_pdf, skipped |-> p.skipped]
    IN  Backfill(emitted.documents, filename, emitted.chunk_counter)

(***************************************************************************)
(* embedding_service.generate_embeddings_for_documents                     *)
(***************************************************************************)

\* the exceptions generate_embedding logs and raises again
EmbedFaults == {"Timeout", "HTTPError", "RequestException", "Exception"}

\* mutant: a failure discards what was collected so far
EmbedStepDropsCollected(out, doc, outcome) ==
    IF outcome.kind = "ok"
    THEN Append(out, [document |-> doc.document, chunk_id |-> doc.chunk_id,
                      text |-> doc.text, embedding |-> outcome.embedding])
    ELSE <<>>

\* the try block of the loop for one chunk: the chunk gets the vector
\* generate_embedding returned and is appended; when the call raised, the
\* except clause logs and the chunk is left out
EmbedStep(out, doc, outcome) ==
    IF outcome.kind = "ok"
    THEN Append(out, [document |-> doc.document, chunk_id |-> doc.chunk_id,
                      text |-> doc.text, embedding |-> outcome.embedding])
    ELSE out

(***************************************************************************)
(* rerank_chunks                                                           *)
(***************************************************************************)

Digits == {"0", "1", "2", "3", "4", "5", "6", "7", "8", "9"}

\* int() of a one-digit string
DigitVal(c) ==
    CASE c = "0" -> 0 [] c = "1" -> 1 [] c = "2" -> 2 [] c = "3" -> 3
      [] c = "4" -> 4 [] c = "5" -> 5 [] c = "6" -> 6 [] c = "7" -> 7
      [] c = "8" -> 8 [] c = "9" -> 9

\* re.findall(r'\d+', content) followed by int(): a left-to-right scan that
\* collects each maximal run of digits as one number.  cur is the value of the
\* run being read, open says whether a run is being read.
RECURSIVE ScanNumbers(_, _, _, _)
ScanNumbers(content, acc, cur, open) ==
    IF content = <<>>
    THEN IF open THEN Append(acc, cur) ELSE acc
    ELSE IF Head(content) \in Digits
         THEN ScanNumbers(Tail(content), acc, cur * 10 + DigitVal(Head(content)), TRUE)
         ELSE ScanNumbers(Tail(content),
                          IF open THEN Append(acc, cur) ELSE acc, 0, FALSE)

\* mutant: every digit is a number of its own (the pattern \d for \d+)
FindNumbersDigitwise(content) ==
    LET at == {i \in 1..Len(content) : content[i] \in Digits}
        nth(k) == CHOOSE i \in at : Cardinality({j \in at : j < i}) = k - 1
    IN  [k \in 1..Cardinality(at) |-> DigitVal(content[nth(k)])]

FindNumbers(content) == ScanNumbers(content, <<>>, 0, FALSE)

\* the loop over the numbers of the reply: a 0 ends the call with an empty
\* result at once; a number in 1..n not selected before is appended (as a
\* 0-based index); every other number is ignored
RECURSIVE SelectIndices(_, _, _)
SelectIndices(numbers, n, selected) ==
    IF numbers = <<>> THEN [zero |-> FALSE, selected |-> selected]
    ELSE LET num == Head(numbers)
         IN  IF num = 0 THEN [zero |-> TRUE, selected |-> <<>>]
             ELSE IF 1 <= num /\ num <= n /\ (num - 1) \notin Range(selected)
                  THEN SelectIndices(Tail(numbers), n, Append(selected, num - 1))
                  ELSE SelectIndices(Tail(numbers), n, selected)

\* reranked_chunks[:max_chunks] when max_chunks is given
CapTo(list, max_chunks) ==
    IF max_chunks = None THEN list ELSE Slice(list, 0, Given(max_chunks))

\* mutant: a timeout yields no candidates
JudgeFailedDropsOnTimeout(chunks, kind) == IF kind = "Timeout" THEN <<>> ELSE chunks

\* what every except clause around the judge call returns
JudgeFailed(chunks, kind) == chunks

\* the reply held no usable number
ParseFailed(chunks) == chunks

\* mutant: a 0 is honoured only when no number in range is named
ParseReplyZeroLast(chunks, max_chunks, content) ==
    LET named == SelectIndices(SelectSeq(FindNumbers(content), LAMBDA x : x # 0),
                               Len(chunks), <<>>)
        sel   == SelectIndices(FindNumbers(content), Len(chunks), <<>>)
    IN  IF named.selected = <<>>
        THEN IF sel.zero THEN <<>> ELSE ParseFailed(chunks)
        ELSE CapTo([k \in 1..Len(named.selected) |-> chunks[named.selected[k] + 1]],
                   max_chunks)

\* the reply parsed: map the selected indices back to their candidates
ParseReply(chunks, max_chunks, content) ==
    LET sel == SelectIndices(FindNumbers(content), Len(chunks), <<>>)
    IN  IF sel.zero THEN <<>>
        ELSE IF sel.selected = <<>> THEN ParseFailed(chunks)
        ELSE CapTo([k \in 1..Len(sel.selected) |-> chunks[sel.selected[k] + 1]],
                   max_chunks)

\* rerank_chunks(query, chunks, max_chunks, provider); judge is what the call
\* to the backend did: it raised (kind names the except clause that catches
\* it) or it returned content
RerankChunks(chunks, max_chunks, judge) ==
    IF chunks = <<>> THEN <<>>
    ELSE IF judge.kind # "ok" THEN JudgeFailed(chunks, judge.kind)
    ELSE ParseReply(chunks, max_chunks, judge.content)

(***************************************************************************)
(* index_manager: the stores, cosine_similarity and the search             *)
(***************************************************************************)

\* DEFAULT_THRESHOLD = 0.5, in hundredths
DefaultThreshold == 50

\* load_index: None when the file is missing or cannot be read, else its list
LoadIndex(file) == IF file.state = "ok" THEN Some(file.docs) ELSE None

\* load_threshold: the stored value, the default when the file is missing or
\* cannot be read
LoadThreshold(file) == IF file.state = "ok" THEN file.value ELSE DefaultThreshold

RECURSIVE Dot(_, _)
Dot(v, w) == IF v = <<>> THEN 0 ELSE Head(v) * Head(w) + Dot(Tail(v), Tail(w))

\* math.sqrt, exact on the perfect squares the drawn vectors give
ISqrt(n) == CHOOSE r \in 0..n : r * r <= n /\ n < (r + 1) * (r + 1)

\* mutant: no comparison of the lengths, the products run over the zipped
\* prefix as zip() does
CosineSimilarityNoLengthCheck(vec1, vec2) ==
    LET n == Min(Len(vec1), Len(vec2))
        dot_product == Dot(SubSeq(vec1, 1, n), SubSeq(vec2, 1, n))
        magnitude1  == ISqrt(Dot(vec1, vec1))
        magnitude2  == ISqrt(Dot(vec2, vec2))
    IN  IF magnitude1 = 0 \/ magnitude2 = 0 THEN 0
        ELSE (100 * dot_product) \div (magnitude1 * magnitude2)

\* cosine_similarity(vec1, vec2), in hundredths
CosineSimilarity(vec1, vec2) ==
    IF Len(vec1) # Len(vec2) THEN 0
    ELSE LET dot_product == Dot(vec1, vec2)
             magnitude1  == ISqrt(Dot(vec1, vec1))
             magnitude2  == ISqrt(Dot(vec2, vec2))
         IN  IF magnitude1 = 0 \/ magnitude2 = 0 THEN 0
             ELSE (100 * dot_product) \div (magnitude1 * magnitude2)

\* the scoring loop: one (doc, score) pair per chunk that has an embedding,
\* in index order
RECURSIVE ScoreAll(_, _)
ScoreAll(query_embedding, index_docs) ==
    IF index_docs = <<>> THEN <<>>
    ELSE LET doc == Head(index_docs)
             rest == ScoreAll(query_embedding, Tail(index_docs))
         IN  IF doc.embedding = None THEN rest
             ELSE <<[doc |-> doc,
                     score |-> CosineSimilarity(query_embedding, Given(doc.embedding))]>>
                  \o rest

\* mutant: the filter compares with the default threshold
PassFilterDefault(pairs, min_similarity) ==
    SelectSeq(pairs, LAMBDA p : p.score >= DefaultThreshold)

\* the pairs the loop also appends to filtered_similarities
PassFilter(pairs, min_similarity) ==
    SelectSeq(pairs, LAMBDA p : p.score >= min_similarity)

\* mutant: an element goes before the elements of equal score
InsertDescTiesFirst(sorted, p) ==
    LET before == Cardinality({i \in 1..Len(sorted) : sorted[i].score > p.score})
    IN  SubSeq(sorted, 1, before) \o <<p>> \o SubSeq(sorted, before + 1, Len(sorted))

\* list.sort(key=score, reverse=True): descending and stable, an element goes
\* after every element already placed whose score is >= its own
InsertDesc(sorted, p) ==
    LET before == Cardinality({i \in 1..Len(sorted) : sorted[i].score >= p.score})
    IN  SubSeq(sorted, 1, before) \o <<p>> \o SubSeq(sorted, before + 1, Len(sorted))

RECURSIVE SortFrom(_, _)
SortFrom(sorted, pairs) ==
    IF pairs = <<>> THEN sorted
    ELSE SortFrom(InsertDesc(sorted, Head(pairs)), Tail(pairs))

SortDesc(pairs) == SortFrom(<<>>, pairs)

\* search_relevant_chunks_with_stats(query_embedding, index_path, top_k,
\* min_similarity) returns (top_results, stats); stats = None stands for the
\* dict {} that carries no entry
SearchWithStats(query_embedding, ifile, tfile, top_k, min_similarity) ==
    LET threshold == IF min_similarity = None THEN LoadThreshold(tfile)
                     ELSE Given(min_similarity)
        index_docs == LoadIndex(ifile)
    IN  IF index_docs = None THEN [results |-> <<>>, stats |-> None]
        ELSE IF Given(index_docs) = <<>> THEN [results |-> <<>>, stats |-> None]
        ELSE
          LET scored   == ScoreAll(query_embedding, Given(index_docs))
              all      == SortDesc(scored)
              filtered == SortDesc(PassFilter(scored, threshold))
              top      == Slice(filtered, 0, top_k)
          IN  [results |-> top,
               stats |-> Some(
                 [total_checked  |-> Len(all),
                  total_filtered |-> Len(filtered),
                  total_rejected |-> Len(all) - Len(filtered),
                  min_similarity |-> threshold,
                  best_similarity |-> IF all # <<>> THEN all[1].score ELSE 0,
                  best_filtered_similarity |-> IF top # <<>> THEN top[1].score ELSE 0,
                  all_top_results |-> Slice(all, 0, top_k)])]

(***************************************************************************)
(* mcp_server.search_documents                                             *)
(***************************************************************************)

\* the least number of candidates fetched for the reranker
RerankFetchFloor == 30

\* search_documents(query, top_k, min_similarity); call also carries the
\* ENABLE_RERANKING flag (rerank), what generate_embedding did (embedded:
\* "ok", "empty" or "raised") and what the reranker's backend did (judge).
\* Returns the response's results list, before_reranking_count and whether
\* it is an error response.
SearchDocuments(call, ifile, tfile) ==
    IF call.embedded # "ok"
    THEN [results |-> <<>>, before |-> 0, error |-> TRUE]
    ELSE
      LET top_k        == call.top_k
          threshold    == IF call.min_similarity = None THEN LoadThreshold(tfile)
                          ELSE Given(call.min_similarity)
          search_top_k == IF call.rerank THEN Max(top_k * 2, RerankFetchFloor)
                          ELSE top_k
          found        == SearchWithStats(call.query, ifile, tfile,
                                          search_top_k, Some(threshold)).results
          reranked     == IF call.rerank
                          THEN RerankChunks(found, Some(top_k), call.judge)
                          ELSE Slice(found, 0, top_k)
      IN  [results |-> [k \in 1..Len(reranked) |->
                          [document   |-> reranked[k].doc.document,
                           chunk_id   |-> reranked[k].doc.chunk_id,
                           similarity |-> reranked[k].score]],
           before  |-> Len(found),
           error   |-> FALSE]

(***************************************************************************)
(* One call of split_text_into_chunks_streaming on drawn arguments         *)
(***************************************************************************)

MaxBuf == 5

SplitAlphabet == {"a", " ", ".", "\n"}

\* (chunk_size, overlap) pairs, overlap < chunk_size
SplitParams == {<<2, 0>>, <<2, 1>>, <<3, 1>>, <<3, 2>>, <<4, 1>>}

SplitCursors == 0..2

\* before the call returns
NoSplit == [chunks |-> <<>>, last_end |-> 0, passes |-> <<>>, fuse |-> FALSE]

\* the loop state while no loop runs
NoLoop == SplitStart(0, 0)

SplitIdle ==
    /\ sp_buf = <<>> /\ sp_size = 0 /\ sp_overlap = 0
    /\ sp_cursor = 0 /\ sp_res = NoSplit /\ sp_pc = "idle"
    /\ sp_st = NoLoop

SplitInit ==
    /\ sp_buf \in SeqsOf(SplitAlphabet, 0, MaxBuf)
    /\ \E p \in SplitParams : sp_size = p[1] /\ sp_overlap = p[2]
    /\ sp_cursor \in SplitCursors
    /\ sp_res = NoSplit
    /\ sp_pc = "call"
    /\ sp_st = NoLoop

CallSplit ==
    /\ sp_pc = "call"
    /\ sp_res' = SplitText(sp_buf, sp_size, sp_overlap, sp_cursor)
    /\ sp_pc' = "done"
    /\ UNCHANGED <<sp_buf, sp_size, sp_overlap, sp_cursor, sp_st>>

\* before the judge is called
NoJudge == [kind |-> "none", content |-> <<>>]

RerankIdle ==
    /\ rr_chunks = <<>> /\ rr_max = None /\ rr_judge = NoJudge
    /\ rr_out = <<>> /\ rr_pc = "idle"

\* before a search is made
NoCall == [op |-> "none", query |-> <<>>, top_k |-> 0, min_similarity |-> None,
           embedded |-> "ok", rerank |-> FALSE, judge |-> NoJudge]
NoReturn == [results |-> <<>>, stats |-> None, before |-> 0, error |-> FALSE]

\* no search call
NoSearchCall ==
    /\ threshold_file = [state |-> "absent", value |-> 0]
    /\ s_call = NoCall /\ s_ret = NoReturn /\ s_pc = "idle"

SearchIdle ==
    /\ index_file = [state |-> "absent", docs |-> <<>>]
    /\ NoSearchCall

\* no run of the folder job
DocIdle ==
    /\ folder = [pdf_files |-> <<>>, md_files |-> <<>>]
    /\ d_size = 0 /\ d_overlap = 0 /\ d_pc = "idle" /\ d_idx = 0
    /\ pdf = FreshPdf /\ documents = <<>> /\ fate = <<>>

\* no save or load of the index store
NoLoad == [done |-> FALSE, value |-> None]

StoreIdle ==
    /\ store_before = [state |-> "absent", docs |-> <<>>]
    /\ save_pc = "idle" /\ save_docs = <<>> /\ loaded = NoLoad

\* no call of split_markdown_by_headers
NoMdCall == [content |-> <<>>, chunk_size |-> 0, overlap |-> 0, min_chunk_size |-> 0]
MdIdle == md_call = NoMdCall /\ md_chunks = <<>> /\ md_pc = "idle"

\* no run of generate_embeddings_for_documents
EmbedIdle == em_docs = <<>> /\ em_calls = <<>> /\ em_out = <<>> /\ em_pc = "idle"

\* no /index command
NoProgress == [current |-> 0, total |-> 0, document_name |-> "", updated |-> FALSE]
IndexIdle == progress_state = NoProgress /\ task_pc = "idle"

OthersIdle == StoreIdle /\ MdIdle /\ EmbedIdle /\ IndexIdle
otherVars == <<storeVars, mdVars, embedVars, indexVars>>

InitSplit == SplitInit /\ RerankIdle /\ SearchIdle /\ DocIdle /\ OthersIdle
NextSplit == CallSplit /\ UNCHANGED <<rerankVars, searchVars, docVars, otherVars>>
SpecSplit == InitSplit /\ [][NextSplit]_vars

\* C6: a buffer no longer than chunk_size, split from cursor 0, yields exactly
\* one chunk equal to the trimmed buffer (none if the trimmed buffer is
\* empty) and the cursor len(buffer).
C6_ShortBufferTrimmed ==
    (sp_pc = "done" /\ Len(sp_buf) <= sp_size /\ sp_cursor = 0) =>
        /\ sp_res.last_end = Len(sp_buf)
        /\ sp_res.chunks =
              IF Strip(sp_buf) = <<>> THEN <<>> ELSE <<Strip(sp_buf)>>

(***************************************************************************)
(* One call of rerank_chunks on drawn arguments                            *)
(***************************************************************************)

MaxCand == 3
MaxReply == 4

\* the i-th candidate of a search result: distinct chunks, scores
\* non-increasing with a tie
Candidate(i) ==
    [chunk |-> [document |-> "doc", chunk_id |-> i - 1],
     score |-> 90 - 10 * (i \div 2)]

CandidateList(n) == [i \in 1..n |-> Candidate(i)]

ReplyAlphabet == {"0", "1", "2", "3", ","}

\* the except clauses of rerank_chunks
JudgeFaults == {"Timeout", "HTTPError", "RequestException", "ConfigError", "Exception"}

JudgeOutcomes ==
    {[kind |-> k, content |-> <<>>] : k \in JudgeFaults}
    \cup {[kind |-> "ok", content |-> c] : c \in SeqsOf(ReplyAlphabet, 0, MaxReply)}

RerankInit ==
    /\ \E n \in 0..MaxCand : rr_chunks = CandidateList(n)
    /\ rr_max \in {None} \cup {Some(m) : m \in 0..MaxCand}
    /\ rr_judge = NoJudge
    /\ rr_out = <<>>
    /\ rr_pc = "call"

CallRerank ==
    /\ rr_pc = "call"
    /\ \E judge \in JudgeOutcomes :
          /\ rr_judge' = judge
          /\ rr_out' = RerankChunks(rr_chunks, rr_max, judge)
    /\ rr_pc' = "done"
    /\ UNCHANGED <<rr_chunks, rr_max>>

InitRerank == RerankInit /\ SplitIdle /\ SearchIdle /\ DocIdle /\ OthersIdle
NextRerank == CallRerank /\ UNCHANGED <<splitVars, searchVars, docVars, otherVars>>
SpecRerank == InitRerank /\ [][NextRerank]_vars

\* The integer literals of a reply, stated without the scanner: the maximal
\* runs of digits, as (first, last) positions, and their values.
DigitRuns(content) ==
    {r \in (1..Len(content)) \X (1..Len(content)) :
        /\ r[1] <= r[2]
        /\ \A k \in r[1]..r[2] : content[k] \in Digits
        /\ (r[1] = 1 \/ content[r[1] - 1] \notin Digits)
        /\ (r[2] = Len(content) \/ content[r[2] + 1] \notin Digits)}

RECURSIVE RunValue(_, _, _)
RunValue(content, first, last) ==
    IF last < first THEN 0
    ELSE 10 * RunValue(content, first, last - 1) + DigitVal(content[last])

LiteralValues(content) == {RunValue(content, r[1], r[2]) : r \in DigitRuns(content)}

\* position of the first literal with value v
FirstMention(content, v) ==
    LET at == {r[1] : r \in {q \in DigitRuns(content) : RunValue(content, q[1], q[2]) = v}}
    IN  CHOOSE i \in at : \A j \in at : i <= j

\* the candidate numbers a reply names, in the order of first mention
NamedInOrder(content, n) ==
    LET V == LiteralValues(content) \cap (1..n)
    IN  CHOOSE s \in [1..Cardinality(V) -> V] :
          /\ \A a, b \in 1..Cardinality(V) : a # b => s[a] # s[b]
          /\ \A a, b \in 1..Cardinality(V) :
                a < b => FirstMention(content, s[a]) < FirstMention(content, s[b])

JudgeReplied == rr_pc = "done" /\ rr_judge.kind = "ok"

\* C1: when the judge call fails in any way, or its reply names neither 0 nor
\* a number in 1..N, rerank_chunks returns the candidate list it was given,
\* unchanged.
C1_FallbackPassThrough ==
    (rr_pc = "done" /\
        (\/ rr_judge.kind # "ok"
         \/ LiteralValues(rr_judge.content) \cap (0..Len(rr_chunks)) = {}))
    => rr_out = rr_chunks

C1_Witness ==
    /\ rr_pc = "done"
    /\ rr_judge.kind = "Timeout"
    /\ Len(rr_chunks) = MaxCand
    /\ rr_max = Some(1)
    /\ rr_out = rr_chunks

\* C2: a reply that holds the integer literal 0 yields an empty result for
\* every candidate list of size >= 1, whatever other integers it holds.
C2_ZeroSentinel ==
    (JudgeReplied /\ Len(rr_chunks) >= 1 /\ 0 \in LiteralValues(rr_judge.content))
    => rr_out = <<>>

C2_Witness ==
    /\ JudgeReplied
    /\ rr_judge.content = <<"1", ",", "0">>
    /\ Len(rr_chunks) >= 1
    /\ rr_out = <<>>

\* C3: a reply without 0 that names at least one number in 1..N yields exactly
\* the named candidates, in the order of first mention, each once, each with
\* its original score, cut to the first max_chunks when max_chunks is given.
C3_SelectedInReplyOrder ==
    (JudgeReplied /\ 0 \notin LiteralValues(rr_judge.content)
        /\ LiteralValues(rr_judge.content) \cap (1..Len(rr_chunks)) # {})
    => LET named == NamedInOrder(rr_judge.content, Len(rr_chunks))
           keep  == IF rr_max = None THEN Len(named) ELSE Min(Given(rr_max), Len(named))
       IN  rr_out = [k \in 1..keep |-> rr_chunks[named[k]]]

C3_Witness ==
    /\ JudgeReplied
    /\ rr_judge.content = <<"3", ",", "1">>
    /\ Len(rr_chunks) = 3
    /\ rr_max = None
    /\ rr_out = <<Candidate(3), Candidate(1)>>

(***************************************************************************)
(* One search over a drawn index store and threshold store                 *)
(***************************************************************************)

MaxIndex == 3
MaxTopK == 3

\* embeddings a stored chunk may carry (None: the chunk has no embedding)
Embeddings ==
    {None, Some(<<1, 0>>), Some(<<3, 4>>), Some(<<0, 0>>), Some(<<1>>), Some(<<>>)}

Queries == {<<1, 0>>, <<3, 4>>}

\* thresholds, in hundredths
Thresholds == {0, 60, 100}

IndexFiles ==
    {[state |-> "absent", docs |-> <<>>], [state |-> "corrupt", docs |-> <<>>]}
    \cup {[state |-> "ok",
           docs |-> [i \in 1..n |->
                       [document |-> "doc", chunk_id |-> i - 1, embedding |-> e[i]]]] :
            n \in 0..MaxIndex, e \in [1..MaxIndex -> Embeddings]}

ThresholdFiles ==
    {[state |-> "absent", value |-> 0]}
    \cup {[state |-> "corrupt", value |-> 0]}
    \cup {[state |-> "ok", value |-> t] : t \in {0, 60}}

\* what the reranker's backend may do in a search_documents call
JudgeSamples ==
    {[kind |-> "Timeout", content |-> <<>>],
     [kind |-> "ok", content |-> <<>>],
     [kind |-> "ok", content |-> <<"0">>],
     [kind |-> "ok", content |-> <<"2", ",", "1">>]}

\* what the collaborators of one search_documents call do: the embedding
\* call fails, or it succeeds and reranking is off, or on with a judge outcome
SearchEnvironments ==
    {[embedded |-> e, rerank |-> FALSE, judge |-> NoJudge] : e \in {"empty", "raised", "ok"}}
    \cup {[embedded |-> "ok", rerank |-> TRUE, judge |-> j] : j \in JudgeSamples}

SearchInit ==
    /\ index_file \in IndexFiles
    /\ threshold_file \in ThresholdFiles
    /\ s_call = NoCall /\ s_ret = NoReturn /\ s_pc = "ready"

\* search_relevant_chunks_with_stats
CallSearch ==
    /\ s_pc = "ready"
    /\ \E q \in Queries, k \in 0..MaxTopK, ms \in {None} \cup {Some(t) : t \in Thresholds} :
          LET r == SearchWithStats(q, index_file, threshold_file, k, ms)
          IN  /\ s_call' = [NoCall EXCEPT !.op = "search", !.query = q, !.top_k = k,
                                          !.min_similarity = ms]
              /\ s_ret' = [NoReturn EXCEPT !.results = r.results, !.stats = r.stats]
    /\ s_pc' = "done"
    /\ UNCHANGED <<index_file, threshold_file>>

\* search_documents
CallSearchDocuments ==
    /\ s_pc = "ready"
    /\ \E q \in {<<1, 0>>}, k \in 0..MaxTopK, ms \in {None, Some(60)},
          env \in SearchEnvironments :
          LET call == [op |-> "search_documents", query |-> q, top_k |-> k,
                       min_similarity |-> ms, embedded |-> env.embedded,
                       rerank |-> env.rerank, judge |-> env.judge]
              r == SearchDocuments(call, index_file, threshold_file)
          IN  /\ s_call' = call
              /\ s_ret' = [NoReturn EXCEPT !.results = r.results, !.before = r.before,
                                           !.error = r.error]
    /\ s_pc' = "done"
    /\ UNCHANGED <<index_file, threshold_file>>

InitSearch == SearchInit /\ SplitIdle /\ RerankIdle /\ DocIdle /\ OthersIdle
NextSearch ==
    (CallSearch \/ CallSearchDocuments)
    /\ UNCHANGED <<splitVars, rerankVars, docVars, otherVars>>
SpecSearch == InitSearch /\ [][NextSearch]_vars

SearchDone == s_pc = "done" /\ s_call.op = "search"
DocumentsDone == s_pc = "done" /\ s_call.op = "search_documents"

\* the threshold a call works with
EffectiveThreshold ==
    IF s_call.min_similarity = None THEN LoadThreshold(threshold_file)
    ELSE Given(s_call.min_similarity)

\* positions of the stored chunks that carry an embedding
Embedded == {i \in 1..Len(index_file.docs) : index_file.docs[i].embedding # None}

\* position in the index of a returned chunk
PositionOf(doc) == CHOOSE i \in 1..Len(index_file.docs) : index_file.docs[i] = doc

\* C4: search_documents returns at most top_k results, with reranking
\* disabled or enabled and whatever the judge does.
C4_AtMostTopK ==
    DocumentsDone => Len(s_ret.results) <= s_call.top_k

\* the postconditions of one search, read from the returned results and stats
SearchPostconditions ==
    /\ s_ret.stats # None
    /\ \A k \in 1..Len(s_ret.results) :
          /\ s_ret.results[k].score >= EffectiveThreshold
          /\ \E i \in Embedded :
                /\ s_ret.results[k].doc = index_file.docs[i]
                /\ s_ret.results[k].score =
                      CosineSimilarity(s_call.query, Given(index_file.docs[i].embedding))
    /\ Given(s_ret.stats).total_checked = Cardinality(Embedded)
    /\ Given(s_ret.stats).total_rejected =
          Given(s_ret.stats).total_checked - Given(s_ret.stats).total_filtered
    /\ Given(s_ret.stats).total_rejected >= 0

\* C9 as stated: for every index, query and threshold the results are at or
\* above the threshold and among the scored pairs, total_checked counts the
\* chunks that carry an embedding, and total_rejected = total_checked -
\* total_filtered >= 0.
C9_PostconditionsEveryIndex ==
    SearchDone => SearchPostconditions

\* what C9 says, for the searches that reach the scoring loop; for a missing,
\* unreadable or empty index the call returns no results and a stats dict
\* without any counter.
C9_Postconditions ==
    /\ (SearchDone /\ index_file.state = "ok" /\ index_file.docs # <<>>)
          => SearchPostconditions
    /\ (SearchDone /\ (index_file.state # "ok" \/ index_file.docs = <<>>))
          => (s_ret.results = <<>> /\ s_ret.stats = None)

C9_Witness ==
    /\ SearchDone
    /\ Len(index_file.docs) = 3
    /\ Cardinality(Embedded) = 2
    /\ s_ret.stats # None
    /\ Given(s_ret.stats).total_checked = 2
    /\ Given(s_ret.stats).total_rejected = 1
    /\ Len(s_ret.results) = 1

\* C10: the results are ordered by non-increasing score and results of equal
\* score keep the relative order their chunks have in the index.
C10_DescendingStable ==
    SearchDone =>
        \A a, b \in 1..Len(s_ret.results) :
            a < b =>
                /\ s_ret.results[a].score >= s_ret.results[b].score
                /\ (s_ret.results[a].score = s_ret.results[b].score
                      => PositionOf(s_ret.results[a].doc) < PositionOf(s_ret.results[b].doc))

C10_Witness ==
    /\ SearchDone
    /\ Len(s_ret.results) = 3
    /\ s_ret.results[1].score > s_ret.results[2].score
    /\ s_ret.results[2].score = s_ret.results[3].score
    /\ PositionOf(s_ret.results[1].doc) = 3
    /\ PositionOf(s_ret.results[2].doc) = 1

\* the score of the stored chunk at position i against the query of the call
ScoreOf(i) == CosineSimilarity(s_call.query, Given(index_file.docs[i].embedding))

\* positions of the stored chunks whose score reaches the threshold of the call
Passing == {i \in Embedded : ScoreOf(i) >= EffectiveThreshold}

\* place of position i in a set of positions ordered by descending score,
\* equal scores in index order
RankIn(S, i) ==
    1 + Cardinality({j \in S : ScoreOf(j) > ScoreOf(i) \/ (ScoreOf(j) = ScoreOf(i) /\ j < i)})

\* the result list is the first top_k places of the passing chunks
FirstTopKOfPassing ==
    /\ Len(s_ret.results) = Min(s_call.top_k, Cardinality(Passing))
    /\ \A r \in 1..Len(s_ret.results) :
          \E i \in Passing :
             /\ RankIn(Passing, i) = r
             /\ s_ret.results[r] = [doc |-> index_file.docs[i], score |-> ScoreOf(i)]

\* the counters describe the whole passing set
CountsWholeFilteredSet ==
    /\ s_ret.stats # None
    /\ Given(s_ret.stats).total_filtered = Cardinality(Passing)
    /\ Given(s_ret.stats).total_rejected = Cardinality(Embedded) - Cardinality(Passing)
    /\ Len(s_ret.results) = Min(s_call.top_k, Given(s_ret.stats).total_filtered)

\* a search that reached the scoring loop: the index is present and not empty
OnScoringPath == SearchDone /\ index_file.state = "ok" /\ index_file.docs # <<>>

\* C11: for every search with top_k >= 0 the returned list is the first top_k
\* elements of the whole filtered list, its length is min(top_k,
\* total_filtered), and total_filtered and total_rejected count the whole
\* filtered set.
C11_TruncatedToTopK ==
    SearchDone => (FirstTopKOfPassing /\ CountsWholeFilteredSet)

\* what C11 says, for the searches that reach the scoring loop
C11_OnScoringPath ==
    OnScoringPath => (FirstTopKOfPassing /\ CountsWholeFilteredSet)

\* the threshold a call is to work with: the argument when given, else the
\* stored value, else the default
ResolvedThreshold ==
    IF s_call.min_similarity # None THEN Given(s_call.min_similarity)
    ELSE IF threshold_file.state = "ok" THEN threshold_file.value
    ELSE DefaultThreshold

\* the returned results are the chunks at or above the resolved threshold
FilteredByResolved ==
    \A i \in Embedded :
        (\E r \in 1..Len(s_ret.results) : s_ret.results[r].doc = index_file.docs[i])
            => ScoreOf(i) >= ResolvedThreshold

\* C12: the effective threshold of a search is the explicit argument when one
\* is given (an explicit 0 included), else the stored value, else the default
\* 0.5 (also for a missing or unreadable store), and it is reported as
\* stats.min_similarity.
C12_EffectiveThreshold ==
    SearchDone =>
        /\ FilteredByResolved
        /\ s_ret.stats # None
        /\ Given(s_ret.stats).min_similarity = ResolvedThreshold

\* what C12 says, for the searches that reach the scoring loop
C12_OnScoringPath ==
    OnScoringPath =>
        /\ FilteredByResolved
        /\ Given(s_ret.stats).min_similarity = ResolvedThreshold

\* the highest score among the passing chunks, 0 when there is none
BestPassing ==
    IF Passing = {} THEN 0
    ELSE CHOOSE m \in {ScoreOf(i) : i \in Passing} : \A i \in Passing : ScoreOf(i) <= m

\* C13: in the stats of every search that reaches the scoring loop,
\* best_filtered_similarity is the maximum score over all chunks that passed
\* the threshold, whatever top_k is, and it is 0 only when no chunk passed.
C13_BestFilteredIsMax ==
    OnScoringPath =>
        /\ Given(s_ret.stats).best_filtered_similarity = BestPassing
        /\ Given(s_ret.stats).best_filtered_similarity = 0 => Passing = {}

\* C14: a search against a missing or an empty index returns no results and
\* a stats record that carries the threshold used and zero counts.
C14_EmptyIndexStats ==
    (SearchDone /\ (index_file.state = "absent"
                     \/ (index_file.state = "ok" /\ index_file.docs = <<>>)))
    => /\ s_ret.results = <<>>
       /\ s_ret.stats # None
       /\ Given(s_ret.stats).min_similarity = ResolvedThreshold
       /\ Given(s_ret.stats).total_checked = 0
       /\ Given(s_ret.stats).total_filtered = 0
       /\ Given(s_ret.stats).total_rejected = 0

\* a stored vector against which the query has no cosine: another length, or
\* a zero magnitude on either side
Degenerate(vec1, vec2) ==
    \/ Len(vec1) # Len(vec2)
    \/ \A k \in 1..Len(vec1) : vec1[k] = 0
    \/ \A k \in 1..Len(vec2) : vec2[k] = 0

\* C20: a search over an index that holds embeddings of another length or of
\* zero magnitude (the empty vector included) completes, and every such chunk
\* is scored exactly 0.
C20_DegenerateScoresZero ==
    OnScoringPath =>
        /\ s_ret.stats # None
        /\ Given(s_ret.stats).total_checked = Cardinality(Embedded)
        /\ \A e \in Range(Given(s_ret.stats).all_top_results) :
              Degenerate(s_call.query, Given(e.doc.embedding)) => e.score = 0

\* an index of a zero vector, a shorter vector and an empty vector, all three
\* scored 0 and listed
C20_Witness ==
    /\ SearchDone
    /\ s_call.top_k = 3
    /\ Len(index_file.docs) = 3
    /\ index_file.docs[1].embedding = Some(<<0, 0>>)
    /\ index_file.docs[2].embedding = Some(<<1>>)
    /\ index_file.docs[3].embedding = Some(<<>>)
    /\ s_ret.stats # None
    /\ Len(Given(s_ret.stats).all_top_results) = 3
    /\ \A e \in Range(Given(s_ret.stats).all_top_results) : e.score = 0

(***************************************************************************)
(* One run of process_documents_from_folder over a drawn folder            *)
(***************************************************************************)

MaxBatches == 2
MaxMdLines == 3

\* the folders: PDF files are processed first, then markdown files
Folders ==
    {[pdf_files |-> <<"p1.pdf", "p2.pdf">>, md_files |-> <<>>],
     [pdf_files |-> <<"p1.pdf">>, md_files |-> <<"m1.md">>],
     [pdf_files |-> <<>>, md_files |-> <<"m1.md">>],
     [pdf_files |-> <<>>, md_files |-> <<>>]}

\* (chunk_size, overlap)
DocParams == {<<3, 1>>, <<4, 2>>}

\* the batches extract_text_from_pdf_batch yields: page texts, each followed
\* by a newline, not blank as a whole
BatchTexts ==
    {<<"a", "\n">>,
     <<"b", "\n">>,
     <<"a", ".", " ", "b", "\n">>,
     <<"a", " ", "b", "\n">>}

\* the lines markdown files are made of
MdLines ==
    {<<"#", " ", "h">>,
     <<"#", "#", " ", "h">>,
     <<"a">>,
     <<"a", ".", " ", "b", "b">>}

RECURSIVE JoinLines(_)
JoinLines(lines) ==
    IF lines = <<>> THEN <<>>
    ELSE IF Len(lines) = 1 THEN lines[1]
    ELSE lines[1] \o <<"\n">> \o JoinLines(Tail(lines))

MdContents == {JoinLines(ls) : ls \in SeqsOf(MdLines, 0, MaxMdLines)}

FileNames(f) == Range(f.pdf_files) \cup Range(f.md_files)

\* where the run goes after file idx of the stage pc
StageAfter(pc, idx) ==
    IF pc = "pdf" /\ idx < Len(folder.pdf_files) THEN [pc |-> "pdf", idx |-> idx + 1]
    ELSE IF pc = "pdf" /\ folder.md_files # <<>> THEN [pc |-> "md", idx |-> 1]
    ELSE IF pc = "md" /\ idx < Len(folder.md_files) THEN [pc |-> "md", idx |-> idx + 1]
    ELSE [pc |-> "done", idx |-> 0]

DocInit ==
    /\ folder \in Folders
    /\ \E p \in DocParams : d_size = p[1] /\ d_overlap = p[2]
    /\ d_pc = IF folder.pdf_files # <<>> THEN "pdf"
              ELSE IF folder.md_files # <<>> THEN "md" ELSE "done"
    /\ d_idx = IF FileNames(folder) = {} THEN 0 ELSE 1
    /\ pdf = FreshPdf
    /\ documents = <<>>
    /\ fate = [f \in FileNames(folder) |-> "pending"]

\* one batch of the current PDF arrives and is chunked
ProcessBatch ==
    /\ d_pc = "pdf"
    /\ pdf.batch_number < MaxBatches
    /\ \E batch_text \in BatchTexts :
          LET r == BatchStep(pdf, documents, batch_text, folder.pdf_files[d_idx],
                             d_size, d_overlap)
          IN  pdf' = r.pdf /\ documents' = r.documents
    /\ UNCHANGED <<folder, d_size, d_overlap, d_pc, d_idx, fate>>

\* the batches of the current PDF are exhausted: tail flush and backfill
FinishPdf ==
    /\ d_pc = "pdf"
    /\ documents' = DrainStep(pdf, documents, folder.pdf_files[d_idx], d_size, d_overlap)
    /\ fate' = [fate EXCEPT ![folder.pdf_files[d_idx]] = "drained"]
    /\ pdf' = FreshPdf
    /\ d_pc' = StageAfter(d_pc, d_idx).pc
    /\ d_idx' = StageAfter(d_pc, d_idx).idx
    /\ UNCHANGED <<folder, d_size, d_overlap>>

\* processing the current PDF raises: the except clause logs and the loop
\* goes on with the next file
FailPdf ==
    /\ d_pc = "pdf"
    /\ fate' = [fate EXCEPT ![folder.pdf_files[d_idx]] = "failed"]
    /\ pdf' = FreshPdf
    /\ d_pc' = StageAfter(d_pc, d_idx).pc
    /\ d_idx' = StageAfter(d_pc, d_idx).idx
    /\ UNCHANGED <<folder, d_size, d_overlap, documents>>

\* a markdown file is processed, or could not be read
ProcessMarkdown ==
    /\ d_pc = "md"
    /\ \E content \in MdContents :
          documents' = documents \o ProcessMarkdownFile(folder.md_files[d_idx], content,
                                                       TRUE, d_size, d_overlap)
    /\ fate' = [fate EXCEPT ![folder.md_files[d_idx]] = "drained"]
    /\ d_pc' = StageAfter(d_pc, d_idx).pc
    /\ d_idx' = StageAfter(d_pc, d_idx).idx
    /\ UNCHANGED <<folder, d_size, d_overlap, pdf>>

FailMarkdown ==
    /\ d_pc = "md"
    /\ documents' = documents \o ProcessMarkdownFile(folder.md_files[d_idx], <<>>,
                                                    FALSE, d_size, d_overlap)
    /\ fate' = [fate EXCEPT ![folder.md_files[d_idx]] = "failed"]
    /\ d_pc' = StageAfter(d_pc, d_idx).pc
    /\ d_idx' = StageAfter(d_pc, d_idx).idx
    /\ UNCHANGED <<folder, d_size, d_overlap, pdf>>

InitDocs == DocInit /\ SplitIdle /\ RerankIdle /\ SearchIdle /\ OthersIdle
NextDocs ==
    (ProcessBatch \/ FinishPdf \/ FailPdf \/ ProcessMarkdown \/ FailMarkdown)
    /\ UNCHANGED <<splitVars, rerankVars, searchVars, otherVars>>
SpecDocs == InitDocs /\ [][NextDocs]_vars

\* positions of the records of a document, and how many precede position k
RecordsOf(f) == {k \in 1..Len(documents) : documents[k].document = f}
EarlierOf(k) == {j \in 1..(k - 1) : documents[j].document = documents[k].document}

\* C5: no two chunk records of the same document have equal trimmed text,
\* after any sequence of batches, the tail flush and the markdown sections.
C5_NoDuplicateText ==
    \A j, k \in 1..Len(documents) :
        (j < k /\ documents[j].document = documents[k].document)
            => Strip(documents[j].text) # Strip(documents[k].text)

\* the same batch arrived twice: the second candidate was skipped as a
\* duplicate and the document still has the one record
C5_Witness ==
    /\ d_pc = "pdf"
    /\ pdf.batch_number = 2
    /\ pdf.skipped = 1
    /\ Len(documents) = 1
    /\ Strip(documents[1].text) = <<"a">>
    /\ pdf.seen_chunks_pdf = {<<"a">>}

\* C7: the chunk_ids of a document's records, in emission order, are
\* 0, 1, ..., n-1.
C7_SequentialChunkIds ==
    \A k \in 1..Len(documents) : documents[k].chunk_id = Cardinality(EarlierOf(k))

\* the second batch brought a duplicate of the first record, which was
\* skipped, and then a new chunk, which got the next id
C7_Witness ==
    /\ d_pc = "pdf"
    /\ pdf.batch_number = 2
    /\ pdf.skipped = 1
    /\ Len(documents) = 2
    /\ Strip(documents[1].text) = <<"a">> /\ documents[1].chunk_id = 0
    /\ Strip(documents[2].text) = <<"b">> /\ documents[2].chunk_id = 1

\* C8: every record of a drained document carries total_chunks = the number
\* of records emitted for that document, and the backfill leaves the records
\* of other documents as they were (a failed PDF keeps its placeholders).
C8_TotalChunksBackfilled ==
    \A k \in 1..Len(documents) :
        LET f == documents[k].document
        IN  /\ fate[f] = "drained" => documents[k].total_chunks = Cardinality(RecordsOf(f))
            /\ fate[f] = "failed" => documents[k].total_chunks = 0

\* two drained PDFs with different record counts, each carrying its own
C8_Witness ==
    /\ d_pc = "done"
    /\ Len(folder.pdf_files) = 2
    /\ fate["p1.pdf"] = "drained" /\ fate["p2.pdf"] = "drained"
    /\ Cardinality(RecordsOf("p1.pdf")) = 1
    /\ Cardinality(RecordsOf("p2.pdf")) = 2
    /\ \A k \in RecordsOf("p1.pdf") : documents[k].total_chunks = 1
    /\ \A k \in RecordsOf("p2.pdf") : documents[k].total_chunks = 2

\* C18: when processing one document raises at any point, the job still
\* processes every remaining document, and its output holds no chunk record
\* of the failed document.
C18_FailedDocumentSkipped ==
    d_pc = "done" =>
        /\ \A f \in FileNames(folder) : fate[f] \in {"drained", "failed"}
        /\ \A k \in 1..Len(documents) : fate[documents[k].document] # "failed"

(***************************************************************************)
(* save_index and load_index on one index store                            *)
(***************************************************************************)

MaxStored == 2

\* the chunk records a collection is made of
StoredDoc(i) == [document |-> "doc", chunk_id |-> i, embedding |-> Some(<<1, 0>>)]

\* the collections saved: the first n records, or one other record
Collections ==
    {[i \in 1..n |-> StoredDoc(i - 1)] : n \in 0..MaxStored} \cup {<<StoredDoc(MaxStored)>>}

\* the store before the save: missing, not parseable, or a saved collection
StoreFiles ==
    {[state |-> "absent", docs |-> <<>>], [state |-> "corrupt", docs |-> <<>>]}
    \cup {[state |-> "ok", docs |-> c] : c \in Collections}

\* the file between open(index_path, 'w') and the end of json.dump: it
\* exists and does not hold a complete JSON document
Truncated == [state |-> "corrupt", docs |-> <<>>]

StoreInit ==
    /\ index_file \in StoreFiles
    /\ store_before = index_file
    /\ save_docs \in Collections
    /\ save_pc = "call"
    /\ loaded = NoLoad

\* save_index: open(index_path, 'w') creates or truncates the file
SaveOpen ==
    /\ save_pc = "call"
    /\ index_file' = Truncated
    /\ save_pc' = "writing"
    /\ UNCHANGED <<store_before, save_docs, loaded>>

\* save_index: open raises, the except clause logs and raises again
SaveOpenFails ==
    /\ save_pc = "call"
    /\ save_pc' = "raised"
    /\ UNCHANGED <<index_file, store_before, save_docs, loaded>>

\* save_index: json.dump ends and the file is closed
SaveWritten ==
    /\ save_pc = "writing"
    /\ index_file' = [state |-> "ok", docs |-> save_docs]
    /\ save_pc' = "done"
    /\ UNCHANGED <<store_before, save_docs, loaded>>

\* save_index: json.dump raises midway, the except clause logs and raises
\* again; what was written stays in the file
SaveInterrupted ==
    /\ save_pc = "writing"
    /\ save_pc' = "raised"
    /\ UNCHANGED <<index_file, store_before, save_docs, loaded>>

\* load_index, called by a reader at any point
LoadStore ==
    /\ loaded' = [done |-> TRUE, value |-> LoadIndex(index_file)]
    /\ UNCHANGED <<index_file, store_before, save_pc, save_docs>>

InitStore ==
    StoreInit /\ NoSearchCall /\ SplitIdle /\ RerankIdle /\ DocIdle /\ MdIdle /\ EmbedIdle
    /\ IndexIdle
NextStore ==
    (SaveOpen \/ SaveOpenFails \/ SaveWritten \/ SaveInterrupted \/ LoadStore)
    /\ UNCHANGED <<threshold_file, s_call, s_ret, s_pc>>
    /\ UNCHANGED <<splitVars, rerankVars, docVars, mdVars, embedVars, indexVars>>
SpecStore == InitStore /\ [][NextStore]_vars

\* C15: a load_index that runs before, during or after a save_index, or
\* after a save that was interrupted, observes the complete previous
\* collection or the complete new one.
C15_SaveAtomic ==
    loaded.done => loaded.value \in {LoadIndex(store_before), Some(save_docs)}

\* C16: load_index returns None only when no store exists at the path; a
\* present store, empty or not, is returned as its collection.
C16_AbsentOnlyWhenMissing ==
    (loaded.done /\ save_pc = "call") =>
        /\ loaded.value = None => index_file.state = "absent"
        /\ index_file.state = "ok" => loaded.value = Some(index_file.docs)

(***************************************************************************)
(* One call of split_markdown_by_headers on a drawn text                   *)
(***************************************************************************)

MaxHeadLines == 4

\* the lines of the texts: headers of three levels and two body lines
HeadLines ==
    {<<"#", " ", "A">>,
     <<"#", "#", " ", "B">>,
     <<"#", "#", "#", " ", "C">>,
     <<"x">>,
     <<"y">>}

HeadContents == {JoinLines(ls) : ls \in SeqsOf(HeadLines, 0, MaxHeadLines)}

\* (chunk_size, overlap, min_chunk_size): sections that fit, and sections
\* that are split
HeadParams == {<<8, 2, 2>>, <<3, 1, 2>>}

MdInit ==
    /\ \E c \in HeadContents, p \in HeadParams :
          md_call = [content |-> c, chunk_size |-> p[1], overlap |-> p[2],
                     min_chunk_size |-> p[3]]
    /\ md_chunks = <<>>
    /\ md_pc = "call"

CallSplitMarkdown ==
    /\ md_pc = "call"
    /\ md_chunks' = SplitMarkdownByHeaders(md_call.content, md_call.chunk_size,
                                           md_call.overlap, md_call.min_chunk_size)
    /\ md_pc' = "done"
    /\ UNCHANGED md_call

InitMarkdown ==
    MdInit /\ SplitIdle /\ RerankIdle /\ SearchIdle /\ DocIdle /\ StoreIdle /\ EmbedIdle
    /\ IndexIdle
NextMarkdown ==
    CallSplitMarkdown
    /\ UNCHANGED <<splitVars, rerankVars, searchVars, docVars, storeVars, embedVars,
                   indexVars>>
SpecMarkdown == InitMarkdown /\ [][NextMarkdown]_vars

\* the call was made on a text that has headers
HeaderStructured == md_pc = "done" /\ ParseMarkdownHeaders(md_call.content) # <<>>

\* the sections of the text of the call, in document order
MdSections == Sections(md_call.content, ParseMarkdownHeaders(md_call.content))

\* the chunk texts section k gives
ProducedBy(k) ==
    IF Len(MdSections[k].text) <= md_call.chunk_size THEN {MdSections[k].text}
    ELSE Range(SplitText(MdSections[k].text, md_call.chunk_size, md_call.overlap, 0).chunks)

\* the section a chunk comes from: the first one that gives its text
SectionOf(chunk) ==
    CHOOSE k \in 1..Len(MdSections) :
        /\ chunk.text \in ProducedBy(k)
        /\ \A j \in 1..(k - 1) : chunk.text \notin ProducedBy(j)

\* section a encloses section b: b lies within the extent of a
Encloses(a, b) == a.start < b.start /\ b.end <= a.end

\* the sections that enclose section k, outermost first, then section k
EnclosingChain(k) ==
    Append(SelectSeq(MdSections, LAMBDA a : Encloses(a, MdSections[k])), MdSections[k])

\* the same, led by the implicit level-0 section of the text before the first
\* header when the text has one
ChainWithPreamble(k) ==
    IF MdSections[1].level = 0 /\ k # 1
    THEN <<MdSections[1]>> \o EnclosingChain(k)
    ELSE EnclosingChain(k)

\* the headers of a chain, root first, separated by ' > '
RECURSIVE Breadcrumb(_)
Breadcrumb(chain) ==
    IF Len(chain) = 1 THEN chain[1].header
    ELSE Breadcrumb(SubSeq(chain, 1, Len(chain) - 1))
            \o <<" ", ">", " ">> \o chain[Len(chain)].header

StrictlyDeeper(chain) == \A i \in 1..(Len(chain) - 1) : chain[i].level < chain[i + 1].level

\* C17 as stated: the header_context of every chunk of a header-structured
\* text is the ' > '-joined chain of the headers of the sections that enclose
\* the chunk's section, outermost first, ending with the section's own
\* header, with strictly increasing levels.
C17_ContextIsEnclosingChain ==
    HeaderStructured =>
        \A n \in 1..Len(md_chunks) :
            /\ md_chunks[n].header_context = Breadcrumb(EnclosingChain(SectionOf(md_chunks[n])))
            /\ StrictlyDeeper(EnclosingChain(SectionOf(md_chunks[n])))

\* C17 (amended): the chain is led by the header of the implicit level-0
\* introduction section whenever the text has one, followed by the headers of
\* the enclosing sections, outermost first, and the section's own header;
\* the levels increase strictly along it.
C17_ContextIsHeaderPath ==
    HeaderStructured =>
        \A n \in 1..Len(md_chunks) :
            /\ md_chunks[n].header_context = Breadcrumb(ChainWithPreamble(SectionOf(md_chunks[n])))
            /\ StrictlyDeeper(ChainWithPreamble(SectionOf(md_chunks[n])))

\* leading text, then header A with nested header B: the chunk of B carries
\* the introduction header, A and B
C17_Witness ==
    /\ md_pc = "done"
    /\ md_call.content = JoinLines(<< <<"x">>, <<"#", " ", "A">>, <<"#", "#", " ", "B">>, <<"y">> >>)
    /\ md_call.chunk_size = 8
    /\ \E n \in 1..Len(md_chunks) :
          /\ md_chunks[n].text = <<"y">>
          /\ md_chunks[n].header_context =
                IntroHeader \o <<" ", ">", " ", "A", " ", ">", " ", "B">>

(***************************************************************************)
(* One run of generate_embeddings_for_documents over drawn chunks          *)
(***************************************************************************)

MaxEmbedDocs == 3

\* the i-th chunk handed to the run
EmbedDoc(i) == [document |-> "doc", chunk_id |-> i - 1, text |-> <<"t">>]

\* what generate_embedding does for one chunk: it returns a vector (the
\* empty one when the reply carries none) or raises
EmbedOutcomes ==
    {[kind |-> "ok", embedding |-> v] : v \in {<<1, 0>>, <<>>}}
    \cup {[kind |-> k, embedding |-> <<>>] : k \in EmbedFaults}

EmbedInit ==
    /\ \E n \in 0..MaxEmbedDocs : em_docs = [i \in 1..n |-> EmbedDoc(i)]
    /\ em_calls = <<>>
    /\ em_out = <<>>
    /\ em_pc = "check"

\* the request to /api/tags raises: the run raises before the loop
ServerUnreachable ==
    /\ em_pc = "check"
    /\ em_pc' = "raised"
    /\ UNCHANGED <<em_docs, em_calls, em_out>>

\* the server answers, with status 200 or another one: the loop starts
ServerAnswers ==
    /\ em_pc = "check"
    /\ em_pc' = "loop"
    /\ UNCHANGED <<em_docs, em_calls, em_out>>

\* one pass of the loop over the chunks
EmbedNext ==
    /\ em_pc = "loop"
    /\ Len(em_calls) < Len(em_docs)
    /\ \E outcome \in EmbedOutcomes :
          /\ em_calls' = Append(em_calls, outcome)
          /\ em_out' = EmbedStep(em_out, em_docs[Len(em_calls) + 1], outcome)
    /\ UNCHANGED <<em_docs, em_pc>>

\* the loop is over: documents_with_embeddings is returned
EmbedReturn ==
    /\ em_pc = "loop"
    /\ Len(em_calls) = Len(em_docs)
    /\ em_pc' = "done"
    /\ UNCHANGED <<em_docs, em_calls, em_out>>

InitEmbed ==
    EmbedInit /\ SplitIdle /\ RerankIdle /\ SearchIdle /\ DocIdle /\ StoreIdle /\ MdIdle
    /\ IndexIdle
NextEmbed ==
    (ServerUnreachable \/ ServerAnswers \/ EmbedNext \/ EmbedReturn)
    /\ UNCHANGED <<splitVars, rerankVars, searchVars, docVars, storeVars, mdVars,
                   indexVars>>
SpecEmbed == InitEmbed /\ [][NextEmbed]_vars

\* positions of the chunks whose call succeeded, among those attempted
Succeeded == {i \in 1..Len(em_calls) : em_calls[i].kind = "ok"}

\* the n-th of them
NthSucceeded(n) == CHOOSE i \in Succeeded : Cardinality({j \in Succeeded : j < i}) = n - 1

\* C19: a failure of the embedding call for one chunk drops only that chunk:
\* the output is exactly the chunks whose call succeeded, in input order,
\* each with the embedding its call returned, and the run returns only after
\* every chunk was attempted.
C19_FailureDropsOnlyThatChunk ==
    /\ Len(em_out) = Cardinality(Succeeded)
    /\ \A n \in 1..Len(em_out) :
          /\ em_out[n].chunk_id = em_docs[NthSucceeded(n)].chunk_id
          /\ em_out[n].document = em_docs[NthSucceeded(n)].document
          /\ em_out[n].text = em_docs[NthSucceeded(n)].text
          /\ em_out[n].embedding = em_calls[NthSucceeded(n)].embedding
    /\ em_pc = "done" => Len(em_calls) = Len(em_docs)

\* the call for the second of three chunks timed out: the first and the
\* third are returned
C19_Witness ==
    /\ em_pc = "done"
    /\ Len(em_docs) = 3
    /\ em_calls[1].kind = "ok" /\ em_calls[2].kind = "Timeout" /\ em_calls[3].kind = "ok"
    /\ Len(em_out) = 2
    /\ em_out[1].chunk_id = 0 /\ em_out[2].chunk_id = 2

\* C21: a section shorter than min_chunk_size is merged into the preceding
\* chunk, so no chunk other than the first is shorter than min_chunk_size.
C21_SmallSectionsMerged ==
    md_pc = "done" =>
        \A n \in 2..Len(md_chunks) : Len(md_chunks[n].text) >= md_call.min_chunk_size

(***************************************************************************)
(* SpecLoop: one call of split_text_into_chunks_streaming, one step per    *)
(* pass of its while loop                                                  *)
(***************************************************************************)

MaxLoopBuf == 4

\* a buffer of n characters, letters and full stops in turn
LongBuffer(n) == [i \in 1..n |-> IF i % 2 = 1 THEN "a" ELSE "."]

\* buffers as long as the iteration ceiling, and one character longer
LongBuffers == {LongBuffer(MaxIterations), LongBuffer(MaxIterations + 1)}

\* (chunk_size, overlap) pairs that advance one character per pass
SlowParams == {<<1, 0>>, <<2, 1>>}

LoopInit ==
    /\ \/ /\ sp_buf \in SeqsOf(SplitAlphabet, 0, MaxLoopBuf)
          /\ \E p \in SplitParams : sp_size = p[1] /\ sp_overlap = p[2]
          /\ sp_cursor \in SplitCursors
       \/ /\ sp_buf \in LongBuffers
          /\ \E p \in SlowParams : sp_size = p[1] /\ sp_overlap = p[2]
          /\ sp_cursor = 0
    /\ sp_res = NoSplit
    /\ sp_pc = "call"
    /\ sp_st = NoLoop

\* the short path: the buffer fits one chunk and nothing was consumed before
ReturnShort ==
    /\ sp_pc = "call"
    /\ Len(sp_buf) <= sp_size /\ sp_cursor = 0
    /\ sp_res' = SplitShort(sp_buf, sp_size, sp_overlap, sp_cursor)
    /\ sp_pc' = "done"
    /\ UNCHANGED <<sp_buf, sp_size, sp_overlap, sp_cursor, sp_st>>

\* the loop is set up
EnterLoop ==
    /\ sp_pc = "call"
    /\ ~(Len(sp_buf) <= sp_size /\ sp_cursor = 0)
    /\ sp_st' = SplitStart(sp_overlap, sp_cursor)
    /\ sp_pc' = "loop"
    /\ UNCHANGED <<sp_buf, sp_size, sp_overlap, sp_cursor, sp_res>>

\* one pass of the loop body below the ceiling
LoopPass ==
    /\ sp_pc = "loop"
    /\ sp_st.start < Len(sp_buf)
    /\ ~(sp_st.iteration + 1 > MaxIterations)
    /\ \E end \in {ChunkEnd(sp_buf, sp_size, sp_st.start)} :
          \E chunk \in {Strip(Slice(sp_buf, sp_st.start, end))} :
             sp_st' = PassResult(sp_st, sp_size, sp_overlap, end, chunk)
    /\ UNCHANGED <<sp_buf, sp_size, sp_overlap, sp_cursor, sp_res, sp_pc>>

\* the ceiling is hit: the loop breaks and the call returns
LoopFuse ==
    /\ sp_pc = "loop"
    /\ sp_st.start < Len(sp_buf)
    /\ sp_st.iteration + 1 > MaxIterations
    /\ sp_st' = [sp_st EXCEPT !.iteration = sp_st.iteration + 1, !.fuse = TRUE]
    /\ sp_res' = SplitResult(sp_buf, sp_overlap, sp_st')
    /\ sp_pc' = "done"
    /\ UNCHANGED <<sp_buf, sp_size, sp_overlap, sp_cursor>>

\* start reached the end of the buffer: the call returns
LoopExit ==
    /\ sp_pc = "loop"
    /\ ~(sp_st.start < Len(sp_buf))
    /\ sp_res' = SplitResult(sp_buf, sp_overlap, sp_st)
    /\ sp_pc' = "done"
    /\ UNCHANGED <<sp_buf, sp_size, sp_overlap, sp_cursor, sp_st>>

InitLoop == LoopInit /\ RerankIdle /\ SearchIdle /\ DocIdle /\ OthersIdle

LoopStep == ReturnShort \/ EnterLoop \/ LoopPass \/ LoopFuse \/ LoopExit

NextLoop == LoopStep /\ UNCHANGED <<rerankVars, searchVars, docVars, otherVars>>

\* the call is one synchronous function: once entered it keeps running
SpecLoop == InitLoop /\ [][NextLoop]_vars /\ WF_vars(NextLoop)

\* the trimmed windows of the passes that appended a chunk, in pass order
AcceptedChunks(buf, passes) ==
    LET acc == {i \in 1..Len(passes) : passes[i].accepted}
        nth(k) == CHOOSE i \in acc : Cardinality({j \in acc : j <= i}) = k
    IN  [k \in 1..Cardinality(acc) |->
            Strip(Slice(buf, passes[nth(k)].start, passes[nth(k)].end))]

\* C22: the call terminates: every pass strictly increases start, no more
\* than MaxIterations passes are made, the call returns, and a call stopped
\* by the ceiling returns every chunk its passes accepted.
C22_Terminates ==
    /\ [][(sp_pc = "loop" /\ sp_pc' = "loop") =>
             /\ sp_st'.start > sp_st.start
             /\ sp_st'.iteration <= MaxIterations]_vars
    /\ <>(sp_pc = "done")
    /\ [](sp_pc = "done" /\ sp_res.fuse =>
             /\ Len(sp_res.passes) = MaxIterations
             /\ sp_res.chunks = AcceptedChunks(sp_buf, sp_res.passes))

\* a call stopped by the ceiling that returns chunks
C22_Witness ==
    /\ sp_pc = "done" /\ sp_res.fuse
    /\ sp_res.chunks # <<>>

(***************************************************************************)
(* SpecSplit: the windows of the passes of one call                        *)
(***************************************************************************)

\* offsets at which delimiter kind k lies wholly inside [lo, hi) of buf
DelimiterAt(buf, k, lo, hi) ==
    {i \in lo..(hi - 2) :
        /\ i + 2 <= Len(buf)
        /\ buf[i + 1] = Delimiters[k][1]
        /\ buf[i + 2] = Delimiters[k][2]}

\* the delimiter kinds that occur in [lo, hi)
KindsIn(buf, lo, hi) ==
    {k \in 1..Len(Delimiters) : DelimiterAt(buf, k, lo, hi) # {}}

\* just after the last occurrence in [lo, hi) of the first kind found there
AfterLastOfFirstKind(buf, lo, hi) ==
    LET first == CHOOSE k \in KindsIn(buf, lo, hi) :
                     \A j \in KindsIn(buf, lo, hi) : k <= j
        last  == CHOOSE i \in DelimiterAt(buf, first, lo, hi) :
                     \A j \in DelimiterAt(buf, first, lo, hi) : j <= i
    IN  last + 2

\* C23: a pass whose tentative end start + chunk_size lies before the end of
\* the buffer ends just after the last occurrence, inside the window, of the
\* first delimiter kind found there in priority order; with no delimiter
\* there, or a tentative end at or past the end of the buffer, it ends at
\* start + chunk_size.
C23_EndAtSentenceBoundary ==
    sp_pc = "done" =>
        \A n \in 1..Len(sp_res.passes) :
            LET p == sp_res.passes[n]
                tentative == p.start + sp_size
            IN  p.end = IF /\ tentative < Len(sp_buf)
                           /\ KindsIn(sp_buf, p.start, tentative) # {}
                        THEN AfterLastOfFirstKind(sp_buf, p.start, tentative)
                        ELSE tentative

\* a pass whose window holds a full stop followed by a blank line: the
\* chunk ends after the full stop
C23_Witness ==
    /\ sp_pc = "done"
    /\ \E n \in 1..Len(sp_res.passes) :
          LET p == sp_res.passes[n]
          IN  /\ p.start + sp_size < Len(sp_buf)
              /\ KindsIn(sp_buf, p.start, p.start + sp_size) = {1, 4}
              /\ \E i \in DelimiterAt(sp_buf, 4, p.start, p.start + sp_size) :
                    i + 2 > p.end
              /\ p.end < p.start + sp_size

\* the passes of the finished call that appended a chunk
Producing == {n \in 1..Len(sp_res.passes) : sp_res.passes[n].accepted}

\* passes i < j that produced chunks one after the other
ConsecutiveChunks(i, j) ==
    /\ i \in Producing /\ j \in Producing /\ i < j
    /\ \A m \in Producing : ~(i < m /\ m < j)

\* the guard against a start that does not advance acted at the end of pass n
GuardActed(n) ==
    sp_res.passes[n].end - sp_overlap <= sp_res.passes[n].start

\* C24 as stated: of two chunks produced one after the other in a call, the
\* later starts no later than the earlier ends, unless the guard forced a
\* jump between them.
C24_ConsecutiveChunksOverlap ==
    sp_pc = "done" =>
        \A i, j \in 1..Len(sp_res.passes) :
            (ConsecutiveChunks(i, j) /\ \A m \in i..(j - 1) : ~GuardActed(m)) =>
                sp_res.passes[j].start <= sp_res.passes[i].end

\* C24 amended: of two chunks produced by passes that follow one another,
\* the later starts no later than the earlier ends, unless the guard forced
\* a jump between them.
C24_ConsecutivePassesOverlap ==
    sp_pc = "done" =>
        \A n \in 1..(Len(sp_res.passes) - 1) :
            (ConsecutiveChunks(n, n + 1) /\ ~GuardActed(n)) =>
                sp_res.passes[n + 1].start <= sp_res.passes[n].end

\* two chunks from passes that follow one another and share text
C24_Witness ==
    /\ sp_pc = "done"
    /\ \E n \in 1..(Len(sp_res.passes) - 1) :
          /\ ConsecutiveChunks(n, n + 1) /\ ~GuardActed(n)
          /\ sp_res.passes[n].end < sp_res.passes[n].start + sp_size
          /\ sp_res.passes[n + 1].start < sp_res.passes[n].end

\* buffer position pos (0-based) lies in the window of pass n
InWindow(pos, n) ==
    sp_res.passes[n].start <= pos /\ pos < sp_res.passes[n].end

\* C27: when the ceiling is not reached, every buffer position from the
\* start of the first pass to the end of the buffer lies in the window of
\* some pass.
C27_NoTextSkipped ==
    (sp_pc = "done" /\ ~sp_res.fuse /\ sp_res.passes # <<>>) =>
        \A pos \in sp_res.passes[1].start..(Len(sp_buf) - 1) :
            \E n \in 1..Len(sp_res.passes) : InWindow(pos, n)

\* the buffer positions the window of pass n covers
Covered(n) == {pos \in 0..(Len(sp_buf) - 1) : InWindow(pos, n)}

\* C29: every chunk returned after the first covers a buffer position that
\* the chunk returned before it does not cover.
C29_NoFragmentOfPrevious ==
    sp_pc = "done" =>
        \A i, j \in 1..Len(sp_res.passes) :
            ConsecutiveChunks(i, j) => ~(Covered(j) \subseteq Covered(i))

(***************************************************************************)
(* SpecDocs: the buffer and the cursor of the streaming path               *)
(***************************************************************************)

\* C25: after the shrink step of every batch the retained buffer holds at
\* most overlap characters and the cursor is an offset into it.
C25_ShrunkBufferBounded ==
    (d_pc = "pdf" /\ pdf.batch_number >= 1) =>
        /\ Len(pdf.text_buffer) <= d_overlap
        /\ 0 <= pdf.last_chunk_end
        /\ pdf.last_chunk_end <= Len(pdf.text_buffer)

\* the current PDF got one batch, no longer than chunk_size, and this step
\* finishes it
SingleShortBatchDrained ==
    /\ d_pc = "pdf"
    /\ Len(pdf.fed) = 1 /\ Len(pdf.fed[1]) <= d_size
    /\ fate'[folder.pdf_files[d_idx]] = "drained"

\* C28: a PDF that arrives as a single batch no longer than chunk_size ends
\* with exactly one chunk record, holding the whole text: the tail flush
\* adds no record.
C28_SingleShortBatchOneRecord ==
    [][SingleShortBatchDrained =>
          LET recs == {k \in 1..Len(documents') :
                          documents'[k].document = folder.pdf_files[d_idx]}
          IN  /\ Cardinality(recs) = 1
              /\ \A k \in recs : documents'[k].text = pdf.fed[1]]_vars

(***************************************************************************)
(* SpecMarkdown: the extents of the sections                               *)
(***************************************************************************)

\* the headers of the text of the call
MdHeaders == ParseMarkdownHeaders(md_call.content)

\* the start of the first header after header i that is not deeper than it,
\* or the end of the text
NextNotDeeper(i) ==
    IF \E j \in (i + 1)..Len(MdHeaders) : MdHeaders[j].level <= MdHeaders[i].level
    THEN LET j == CHOOSE j \in (i + 1)..Len(MdHeaders) :
                     /\ MdHeaders[j].level <= MdHeaders[i].level
                     /\ \A k \in (i + 1)..(j - 1) : MdHeaders[k].level > MdHeaders[i].level
         IN  MdHeaders[j].start_pos
    ELSE Len(md_call.content)

\* header i has text between its line and NextNotDeeper(i)
HasText(i) ==
    Strip(Slice(md_call.content, MdHeaders[i].end_pos, NextNotDeeper(i))) # <<>>

Disjoint(a, b) == a.end <= b.start \/ b.end <= a.start
Within(a, b) == b.start <= a.start /\ a.end <= b.end

\* C26: the section of every header runs from the end of its line to the
\* start of the next header whose level is <= its own, or to the end of the
\* text; any two sections are disjoint or one contains the other.
C26_SectionExtents ==
    HeaderStructured =>
        LET by_header == HeaderSections(md_call.content, MdHeaders, 1)
        IN  /\ \A i \in 1..Len(MdHeaders) :
                  HasText(i) =>
                      \E n \in 1..Len(by_header) :
                          /\ by_header[n].header = MdHeaders[i].text
                          /\ by_header[n].level = MdHeaders[i].level
                          /\ by_header[n].start = MdHeaders[i].end_pos
                          /\ by_header[n].end = NextNotDeeper(i)
            /\ Len(by_header) = Cardinality({i \in 1..Len(MdHeaders) : HasText(i)})
            /\ \A m, n \in 1..Len(MdSections) :
                  \/ Disjoint(MdSections[m], MdSections[n])
                  \/ Within(MdSections[m], MdSections[n])
                  \/ Within(MdSections[n], MdSections[m])

\* a text with a section inside another one and a section apart from both
C26_Witness ==
    /\ HeaderStructured
    /\ \E m, n, k \in 1..Len(MdSections) :
          /\ Encloses(MdSections[m], MdSections[n])
          /\ Disjoint(MdSections[k], MdSections[m])

(***************************************************************************)
(* SpecIndex: index_command from the start of process_embeddings: the      *)
(* embedding run in its thread and update_progress_task on the event loop  *)
(***************************************************************************)

\* progress_callback(current, total, document_name)
ProgressCallback(current, total, document_name) ==
    [current |-> current, total |-> total, document_name |-> document_name,
     updated |-> TRUE]

\* index_command goes on only with a non-empty list of chunks; the
\* dictionary starts at 0 of len(documents) and the task is created before
\* the run is started
IndexInit ==
    /\ \E n \in 1..MaxEmbedDocs : em_docs = [i \in 1..n |-> EmbedDoc(i)]
    /\ em_calls = <<>>
    /\ em_out = <<>>
    /\ em_pc = "check"
    /\ progress_state = [current |-> 0, total |-> Len(em_docs),
                         document_name |-> "", updated |-> FALSE]
    /\ task_pc = "sleep"

\* the connectivity check of the run raises
JobUnreachable == ServerUnreachable /\ UNCHANGED indexVars

\* the connectivity check gets an answer
JobAnswers == ServerAnswers /\ UNCHANGED indexVars

\* one pass of the run's loop: the callback, then the embedding call
JobNext ==
    /\ EmbedNext
    /\ progress_state' = ProgressCallback(Len(em_calls) + 1, Len(em_docs),
                                          em_docs[Len(em_calls) + 1].document)
    /\ UNCHANGED task_pc

\* the run returns
JobReturn == EmbedReturn /\ UNCHANGED indexVars

\* the task wakes from its 2 second sleep and looks at the updated flag
TaskWake ==
    /\ task_pc = "sleep"
    /\ task_pc' = IF progress_state.updated THEN "report" ELSE "check"
    /\ UNCHANGED <<progress_state, embedVars>>

\* the progress message is sent or edited (a failure is logged) and the
\* flag is cleared
TaskReport ==
    /\ task_pc = "report"
    /\ progress_state' = [progress_state EXCEPT !.updated = FALSE]
    /\ task_pc' = "check"
    /\ UNCHANGED embedVars

\* the end test: current >= total leads to the 1 second sleep, anything else
\* back to the top of the loop
TaskCheck ==
    /\ task_pc = "check"
    /\ task_pc' = IF progress_state.current >= progress_state.total
                  THEN "grace" ELSE "sleep"
    /\ UNCHANGED <<progress_state, embedVars>>

\* after the 1 second sleep: break unless the flag was set again
TaskGrace ==
    /\ task_pc = "grace"
    /\ task_pc' = IF ~progress_state.updated THEN "ended" ELSE "sleep"
    /\ UNCHANGED <<progress_state, embedVars>>

JobStep == JobUnreachable \/ JobAnswers \/ JobNext \/ JobReturn
TaskStep == TaskWake \/ TaskReport \/ TaskCheck \/ TaskGrace

InitIndex ==
    IndexInit /\ SplitIdle /\ RerankIdle /\ SearchIdle /\ DocIdle /\ StoreIdle /\ MdIdle

\* a step of the thread of the run, a step of the task on the event loop
JobRuns ==
    JobStep
    /\ UNCHANGED <<splitVars, rerankVars, searchVars, docVars, storeVars, mdVars>>
TaskRuns ==
    TaskStep
    /\ UNCHANGED <<splitVars, rerankVars, searchVars, docVars, storeVars, mdVars>>

NextIndex == JobRuns \/ TaskRuns

\* the thread of the run keeps running, and the event loop keeps resuming
\* the task whenever its sleep is over
SpecIndex ==
    InitIndex /\ [][NextIndex]_vars /\ WF_vars(JobRuns) /\ WF_vars(TaskRuns)

\* C30: once the embedding run has ended, by returning or by raising,
\* update_progress_task eventually terminates.
C30_ProgressTaskEnds ==
    (em_pc \in {"done", "raised"}) ~> (task_pc = "ended")

====
